---- MODULE Spec2Model ----
(***************************************************************************)
(* A model of desktop_notifier.main: the backend selector                  *)
(* get_implementation_class, the DesktopNotifier orchestrator with its     *)
(* asynchronous operations (interleaving at their await points) and the    *)
(* synchronous bridge _run_coro_sync / send_sync on the private loop.      *)
(* The platform backends (DesktopNotifierBase and its subclasses) are not  *)
(* part of main.py; they are modelled from the backend contract.           *)
(***************************************************************************)
EXTENDS Integers, Sequences, FiniteSets, TLC

\* ------------------------------------------------------------------ bounds
\* Number of coroutine calls (and of bridging threads) in one behaviour.
MaxTasks == 2
\* Longest dotted version string, in components ("10.0.10240" has 3).
MaxVerLen == 3
\* Number of calls in the specification of the notification store.
MaxSends == 3

Tasks == 1..MaxTasks
\* The slots for coroutines: enough for either number of calls.
Sends == 1..MaxSends
Slots == Tasks \cup Sends
\* Optional values: None is the empty sequence, Some(x) the one-element one.
None == <<>>
Some(x) == <<x>>

\* ------------------------------------------------------------ value domains
\* Icon values; NoIcon is the falsy "no icon given" (None).
NoIcon == "NoIcon"
DEFAULT_ICON == "DefaultIcon"
AppIcons == {DEFAULT_ICON, "IconB"}
NotificationIcons == {NoIcon, "IconA"}
AppNames == {"Python", "App"}
\* The capability sets a backend may report; the empty frozenset is one.
CapabilitySets == {{}, {"BUTTONS"}}
\* notification_limit values given to the constructor.
NotificationLimits == {None, Some(1), Some(2)}

VARIABLES
    env,                        \* what platform / macos_support report
    selected,                   \* last result of get_implementation_class
    limit_arg,                  \* notification_limit as given to __init__
    app_icon,                   \* self.app_icon
    _impl,                      \* self._impl: identity of the backend instance
    implCls,                    \* class of self._impl
    _did_request_authorisation, \* self._did_request_authorisation
    _capabilities,              \* self._capabilities
    loopOwner,                  \* thread inside self._loop.run_forever, or None
    loopBlocked,                \* the loop's thread sits in future.result()
    thread,                     \* position of each thread in _run_coro_sync
    task,                       \* the coroutines of the public async operations
    app_name,                   \* backend: app_name
    notification_limit,         \* backend: notification_limit
    permission,                 \* backend: OS-level permission
    prompts,                    \* backend: permission prompts shown so far
    backendCaps,                \* backend: capability set it would report now
    current,                    \* backend: current_notifications (identifiers)
    nextNid,                    \* backend: next native identifier
    capQueries,                 \* history: calls of _impl.get_capabilities
    authBySend,                 \* history: request_authorisation made by send
    explicitBeforeSend,         \* history: explicit request preceded all sends
    delegated                   \* history: backend instances that got a call

vars == <<env, selected, limit_arg, app_icon, _impl, implCls,
          _did_request_authorisation, _capabilities, loopOwner, loopBlocked,
          thread, task, app_name, notification_limit, permission, prompts,
          backendCaps, current, nextNid, capQueries, authBySend,
          explicitBeforeSend, delegated>>

orchVars == <<app_icon, _impl, implCls, _did_request_authorisation,
              _capabilities>>
loopVars == <<loopOwner, loopBlocked, thread>>
selVars == <<env, selected, limit_arg>>
backendVars == <<app_name, notification_limit, permission, prompts,
                 backendCaps, current, nextNid>>
histVars == <<capQueries, authBySend, explicitBeforeSend, delegated>>

\* ------------------------------------------------------- backend selector
\* packaging.version.Version of a dotted numeric string, the string given as
\* the sequence of its components: the release with trailing zeros dropped,
\* which is what Version compares.
RECURSIVE Version(_)
Version(s) ==
    IF Len(s) > 0 /\ s[Len(s)] = 0 THEN Version(SubSeq(s, 1, Len(s) - 1)) ELSE s

\* Tuple comparison a >= b of two releases, as Python compares tuples.
RECURSIVE TupleGE(_, _)
TupleGE(a, b) ==
    IF Len(b) = 0 THEN TRUE
    ELSE IF Len(a) = 0 THEN FALSE
    ELSE IF a[1] # b[1] THEN a[1] > b[1]
    ELSE TupleGE(Tail(a), Tail(b))

RECURSIVE TupleGT(_, _)
TupleGT(a, b) ==
    IF Len(a) = 0 THEN FALSE
    ELSE IF Len(b) = 0 THEN TRUE
    ELSE IF a[1] # b[1] THEN a[1] > b[1]
    ELSE TupleGT(Tail(a), Tail(b))

VersionGE(a, b) == TupleGE(Version(a), Version(b))
VersionGT(a, b) == TupleGT(Version(a), Version(b))

MacThreshold == <<10, 14>>
WinThreshold == <<10, 0, 10240>>

get_implementation_class_strict(e) ==
    IF e.system = "Darwin" THEN
        IF VersionGT(e.version, MacThreshold) /\ e.is_bundle
        THEN "CocoaNotificationCenter"
        ELSE "DummyNotificationCenter"
    ELSE IF e.system = "Linux" THEN "DBusDesktopNotifier"
    ELSE IF e.system = "Windows" /\ VersionGT(e.version, WinThreshold)
    THEN "WinRTDesktopNotifier"
    ELSE "DummyNotificationCenter"

get_implementation_class(e) ==
    IF e.system = "Darwin" THEN
        LET has_unusernotificationcenter == VersionGE(e.version, MacThreshold) IN
        IF has_unusernotificationcenter /\ e.is_bundle
        THEN "CocoaNotificationCenter"   \* unsigned bundles only log a warning
        ELSE "DummyNotificationCenter"
    ELSE IF e.system = "Linux" THEN "DBusDesktopNotifier"
    ELSE IF e.system = "Windows" /\ VersionGE(e.version, WinThreshold)
    THEN "WinRTDesktopNotifier"
    ELSE "DummyNotificationCenter"

\* ---------------------------------------------------------------- the host
Systems == {"Darwin", "Linux", "Windows", "Java"}
VersionParts == {0, 10, 14, 10240}
RECURSIVE SeqsUpTo(_)
SeqsUpTo(n) ==
    IF n = 0 THEN {<<>>}
    ELSE LET shorter == SeqsUpTo(n - 1) IN
         shorter \cup {Append(s, x) : s \in {q \in shorter : Len(q) = n - 1},
                                      x \in VersionParts}
VersionStrings == SeqsUpTo(MaxVerLen) \ {<<>>}
Environments ==
    [system : Systems, version : VersionStrings,
     is_bundle : BOOLEAN, is_signed_bundle : BOOLEAN]
\* The host of the notifier whose operations are explored.
HostEnvironment ==
    [system |-> "Linux", version |-> <<10>>,
     is_bundle |-> FALSE, is_signed_bundle |-> FALSE]

\* ------------------------------------------------------------- coroutines
\* The title every caller gives; send passes it on untouched.
Title == "Reminder"

\* A slot: the coroutine's position and result, the Notification it carries
\* (title, icon, identifier), and what is remembered of the call: the icon
\* the caller gave, whether this call made the authorisation request, how
\* often it invoked the backend's send, whether the backend accepted.
IdleTask ==
    [op |-> "none", pc |-> "idle", onLoop |-> FALSE, icon |-> NoIcon,
     identifier |-> None, arg |-> None, res |-> None, status |-> "pending",
     prompting |-> FALSE, accepted |-> FALSE, title |-> Title,
     given |-> NoIcon, asked |-> FALSE, dispatched |-> 0]

\* __init__, line 169: the limit the backend is constructed with.
impl_limit_dropped(limit) == None
impl_limit(limit) == limit

\* DesktopNotifier.__init__, lines 148-176: the fields of a new notifier.
NotifierFields(icon, limit) ==
    /\ _impl = 0
    /\ app_icon = icon
    /\ app_name = "Python"
    /\ limit_arg = limit
    /\ notification_limit = impl_limit(limit)
    /\ _did_request_authorisation = FALSE
    /\ loopOwner = None
    /\ loopBlocked = FALSE
    /\ _capabilities = None
    /\ thread = [t \in Slots |-> "idle"]
    /\ task = [k \in Slots |-> IdleTask]
    /\ prompts = 0
    /\ current = <<>>
    /\ nextNid = 1
    /\ capQueries = 0
    /\ authBySend = 0
    /\ explicitBeforeSend = FALSE
    /\ delegated = {}

\* DesktopNotifier.__init__ with the given arguments on the given host.
Constructed(e, icon, limit) ==
    /\ env = e
    /\ selected = get_implementation_class(e)
    /\ implCls = selected
    /\ NotifierFields(icon, limit)

Init ==
    /\ \E limit \in NotificationLimits :
           Constructed(HostEnvironment, DEFAULT_ICON, limit)
    /\ permission \in {"notDetermined", "granted"}
    /\ backendCaps \in CapabilitySets

\* self._loop.is_running()
is_running_inverted == loopOwner = None
is_running == loopOwner # None

\* A coroutine makes a step when the loop it lives on gets to run it: the
\* caller's own loop, or the private loop while some thread runs it and that
\* thread is not blocked inside a callback.
Schedulable(k) == ~task[k].onLoop \/ (is_running /\ ~loopBlocked)

\* ----------------------------------------------- backend contract (ops)
\* request_authorisation(): a one-time prompt if the permission was never
\* determined; the answer arrives when the call completes.
BackendPrompts == permission = "notDetermined" /\ prompts = 0
BackendAuthAnswers(prompting) ==
    IF prompting /\ permission = "notDetermined"
    THEN {"granted", "denied"} ELSE {permission}
\* send(): accepted only with permission, and even then it may fail.
BackendAccepts == IF permission = "granted" THEN BOOLEAN ELSE {FALSE}
\* The retained notifications after one more was scheduled: oldest out first.
BackendRetain(cur, nid) ==
    IF notification_limit # None /\ Len(cur) >= notification_limit[1]
    THEN Append(Tail(cur), nid) ELSE Append(cur, nid)
RECURSIVE Without(_, _)
Without(cur, nid) ==
    IF cur = <<>> THEN <<>>
    ELSE IF Head(cur) = nid THEN Without(Tail(cur), nid)
    ELSE <<Head(cur)>> \o Without(Tail(cur), nid)

\* ------------------------------------------------- DesktopNotifier (async)
\* request_authorisation, line 213: the flag after the assignment.
did_request_unset(old) == old
did_request_set(old) == TRUE

\* request_authorisation, line 214: what the caller gets from the backend's
\* answer.
request_authorisation_stale(answer) == _did_request_authorisation
request_authorisation_result(answer) == answer

\* send_notification, line 242: how the call ends once the backend's send
\* has returned, accepted or not.
send_outcome_raising(accepted) == IF accepted THEN "returned" ELSE "raised"
send_outcome(accepted) == "returned"

\* Calls are numbered in the order they are made: slot k is free for the next
\* call when it is unused and every slot before it is in use.
Free(k) ==
    /\ task[k].pc = "idle"
    /\ thread[k] = "idle"
    /\ \A j \in Slots : j < k => task[j].op # "none"

\* send_notification, lines 230-231: the icon the notification goes on with.
default_icon_always(icon) == app_icon
default_icon_never(icon) == icon
default_icon(icon) == IF icon = NoIcon THEN app_icon ELSE icon

\* send_notification, lines 238-240: whether the backend's send is invoked
\* once the authorisation request has answered `granted`.
sends_only_if_granted(granted) == granted
sends_regardless(granted) == TRUE

\* send_notification, line 242: the identifier of the Notification handed
\* back, the backend having left `nid` on the one it was given.
returned_identifier_of_copy(nid) == None
returned_identifier(nid) == nid

\* `not self._capabilities`: None and the empty frozenset are both falsy.
NoCapabilities(c) == c = None \/ c[1] = {}

\* send_notification up to its first suspension: the default icon, then the
\* authorisation request if none was made, else the backend's send.
send_notification(k, icon, onLoop) ==
    LET n_icon == default_icon(icon)
        asks == ~_did_request_authorisation
    IN  /\ task' = [task EXCEPT ![k] =
               [IdleTask EXCEPT !.op = "send", !.onLoop = onLoop,
                    !.icon = n_icon, !.given = icon, !.asked = asks,
                    !.pc = IF asks THEN "await_auth" ELSE "await_send",
                    !.dispatched = IF asks THEN 0 ELSE 1,
                    !.prompting = asks /\ BackendPrompts]]
        /\ _did_request_authorisation' =
               IF asks THEN did_request_set(_did_request_authorisation)
               ELSE _did_request_authorisation
        /\ prompts' = IF asks /\ BackendPrompts THEN prompts + 1 ELSE prompts
        /\ authBySend' = IF asks THEN authBySend + 1 ELSE authBySend
        /\ delegated' = delegated \cup {_impl}
        /\ UNCHANGED <<app_icon, _impl, implCls, _capabilities, app_name,
                       notification_limit, permission, backendCaps, current,
                       nextNid, capQueries, explicitBeforeSend>>

\* await send(...) / send_notification(n) in the caller's own loop.
send(k, icon) ==
    /\ Free(k)
    /\ send_notification(k, icon, FALSE)
    /\ UNCHANGED <<selVars, loopVars>>

\* send_notification resumes with the answer of request_authorisation and
\* goes on to the backend's send, whatever the answer.
send_notification_resume(k) ==
    /\ task[k].op = "send" /\ task[k].pc = "await_auth"
    /\ Schedulable(k)
    /\ \E p \in BackendAuthAnswers(task[k].prompting) :
           /\ permission' = p
           /\ task' = IF sends_regardless(p = "granted")
                      THEN [task EXCEPT ![k].pc = "await_send",
                                        ![k].prompting = FALSE,
                                        ![k].dispatched = 1]
                      ELSE [task EXCEPT ![k].pc = "done",
                                        ![k].prompting = FALSE,
                                        ![k].status = "returned"]
    /\ UNCHANGED <<selVars, orchVars, loopVars, app_name, notification_limit,
                   prompts, backendCaps, current, nextNid, histVars>>

\* The backend's send returns: on acceptance it has set the identifier and
\* retains the notification. send_notification returns the notification.
send_notification_return(k, accepted) ==
    /\ task[k].op = "send" /\ task[k].pc = "await_send"
    /\ Schedulable(k)
    /\ accepted \in BackendAccepts
    /\ task' = [task EXCEPT ![k].pc = "done",
                            ![k].status = send_outcome(accepted),
                            ![k].accepted = accepted,
                            ![k].identifier = returned_identifier(
                                IF accepted THEN Some(nextNid) ELSE None)]
    /\ current' = IF accepted THEN BackendRetain(current, nextNid) ELSE current
    /\ nextNid' = IF accepted THEN nextNid + 1 ELSE nextNid
    /\ UNCHANGED <<selVars, orchVars, loopVars, app_name, notification_limit,
                   permission, prompts, backendCaps, histVars>>

\* await request_authorisation(): the flag is set before the backend is asked.
request_authorisation(k) ==
    /\ Free(k)
    /\ task' = [task EXCEPT ![k] =
           [IdleTask EXCEPT !.op = "request_authorisation",
                !.pc = "await_auth", !.prompting = BackendPrompts]]
    /\ _did_request_authorisation' = did_request_set(_did_request_authorisation)
    /\ prompts' = IF BackendPrompts THEN prompts + 1 ELSE prompts
    /\ explicitBeforeSend' =
           (explicitBeforeSend \/ \A j \in Slots : task[j].op # "send")
    /\ delegated' = delegated \cup {_impl}
    /\ UNCHANGED <<selVars, loopVars, app_icon, _impl, implCls, _capabilities,
                   app_name, notification_limit, permission, backendCaps,
                   current, nextNid, capQueries, authBySend>>

request_authorisation_return(k) ==
    /\ task[k].op = "request_authorisation" /\ task[k].pc = "await_auth"
    /\ Schedulable(k)
    /\ \E p \in BackendAuthAnswers(task[k].prompting) :
           /\ permission' = p
           /\ task' = [task EXCEPT ![k].pc = "done", ![k].status = "returned",
                  ![k].prompting = FALSE,
                  ![k].res = Some(request_authorisation_result(p = "granted"))]
    /\ UNCHANGED <<selVars, orchVars, loopVars, app_name, notification_limit,
                   prompts, backendCaps, current, nextNid, histVars>>

\* has_authorisation() counted as a request for authorisation.
has_authorisation_marking(k) ==
    /\ Free(k)
    /\ task' = [task EXCEPT ![k] =
           [IdleTask EXCEPT !.op = "has_authorisation", !.pc = "await_has"]]
    /\ _did_request_authorisation' = TRUE
    /\ delegated' = delegated \cup {_impl}
    /\ UNCHANGED <<selVars, app_icon, _impl, implCls, _capabilities, loopVars,
                   backendVars, capQueries, authBySend, explicitBeforeSend>>

\* await has_authorisation()
has_authorisation(k) ==
    /\ Free(k)
    /\ task' = [task EXCEPT ![k] =
           [IdleTask EXCEPT !.op = "has_authorisation", !.pc = "await_has"]]
    /\ delegated' = delegated \cup {_impl}
    /\ UNCHANGED <<selVars, orchVars, loopVars, backendVars, capQueries,
                   authBySend, explicitBeforeSend>>

has_authorisation_return(k) ==
    /\ task[k].op = "has_authorisation" /\ task[k].pc = "await_has"
    /\ Schedulable(k)
    /\ task' = [task EXCEPT ![k].pc = "done", ![k].status = "returned",
                            ![k].res = Some(permission = "granted")]
    /\ UNCHANGED <<selVars, orchVars, loopVars, backendVars, histVars>>

\* await get_capabilities(): the backend is asked when the cache is falsy.
get_capabilities(k) ==
    /\ Free(k)
    /\ IF NoCapabilities(_capabilities)
       THEN /\ task' = [task EXCEPT ![k] =
                   [IdleTask EXCEPT !.op = "get_capabilities",
                                    !.pc = "await_caps"]]
            /\ capQueries' = capQueries + 1
            /\ delegated' = delegated \cup {_impl}
       ELSE /\ task' = [task EXCEPT ![k] =
                   [IdleTask EXCEPT !.op = "get_capabilities", !.pc = "done",
                        !.status = "returned", !.res = _capabilities]]
            /\ UNCHANGED <<capQueries, delegated>>
    /\ UNCHANGED <<selVars, orchVars, loopVars, backendVars, authBySend,
                   explicitBeforeSend>>

get_capabilities_return(k) ==
    /\ task[k].op = "get_capabilities" /\ task[k].pc = "await_caps"
    /\ Schedulable(k)
    /\ _capabilities' = Some(backendCaps)
    /\ task' = [task EXCEPT ![k].pc = "done", ![k].status = "returned",
                            ![k].res = _capabilities']
    /\ UNCHANGED <<selVars, app_icon, _impl, implCls,
                   _did_request_authorisation, loopVars, backendVars, histVars>>

\* The identifiers a caller can hold: those of the notifications its sends
\* returned, and None for a notification that was never scheduled.
KnownIdentifiers == {task[j].identifier : j \in Slots}

\* await clear(n)
clear(k, nid) ==
    /\ Free(k)
    /\ nid \in KnownIdentifiers
    /\ task' = [task EXCEPT ![k] =
           [IdleTask EXCEPT !.op = "clear", !.pc = "await_clear",
                            !.arg = nid]]
    /\ delegated' = delegated \cup {_impl}
    /\ UNCHANGED <<selVars, orchVars, loopVars, backendVars, capQueries,
                   authBySend, explicitBeforeSend>>

\* clear(n) forwarded to the backend's clear_all instead.
clear_return_all(k) ==
    /\ task[k].op = "clear" /\ task[k].pc = "await_clear"
    /\ Schedulable(k)
    /\ current' = <<>>
    /\ task' = [task EXCEPT ![k].pc = "done", ![k].status = "returned"]
    /\ UNCHANGED <<selVars, orchVars, loopVars, app_name, notification_limit,
                   permission, prompts, backendCaps, nextNid, histVars>>

\* The backend's clear returns: the notification is gone from its list.
clear_return(k) ==
    /\ task[k].op = "clear" /\ task[k].pc = "await_clear"
    /\ Schedulable(k)
    /\ current' = IF task[k].arg = None THEN current
                  ELSE Without(current, task[k].arg[1])
    /\ task' = [task EXCEPT ![k].pc = "done", ![k].status = "returned"]
    /\ UNCHANGED <<selVars, orchVars, loopVars, app_name, notification_limit,
                   permission, prompts, backendCaps, nextNid, histVars>>

\* await clear_all()
clear_all(k) ==
    /\ Free(k)
    /\ task' = [task EXCEPT ![k] =
           [IdleTask EXCEPT !.op = "clear_all", !.pc = "await_clear_all"]]
    /\ delegated' = delegated \cup {_impl}
    /\ UNCHANGED <<selVars, orchVars, loopVars, backendVars, capQueries,
                   authBySend, explicitBeforeSend>>

\* clear_all() returning without the backend's clear_all having run.
clear_all_return_unawaited(k) ==
    /\ task[k].op = "clear_all" /\ task[k].pc = "await_clear_all"
    /\ Schedulable(k)
    /\ task' = [task EXCEPT ![k].pc = "done", ![k].status = "returned"]
    /\ UNCHANGED <<selVars, orchVars, loopVars, backendVars, histVars>>

\* The backend's clear_all returns: its list is empty.
clear_all_return(k) ==
    /\ task[k].op = "clear_all" /\ task[k].pc = "await_clear_all"
    /\ Schedulable(k)
    /\ current' = <<>>
    /\ task' = [task EXCEPT ![k].pc = "done", ![k].status = "returned"]
    /\ UNCHANGED <<selVars, orchVars, loopVars, app_name, notification_limit,
                   permission, prompts, backendCaps, nextNid, histVars>>

\* ------------------------------------------- DesktopNotifier (properties)
\* notifier.current_notifications
current_notifications ==
    /\ delegated' = delegated \cup {_impl}
    /\ UNCHANGED <<selVars, orchVars, loopVars, task, backendVars, capQueries,
                   authBySend, explicitBeforeSend>>

\* notifier.app_name = value, with the backend rebuilt under the new name.
app_name_setter_rebuilding(value) ==
    /\ value # app_name
    /\ app_name' = value
    /\ _impl' = _impl + 1
    /\ delegated' = delegated \cup {_impl'}
    /\ UNCHANGED <<selVars, app_icon, implCls, _did_request_authorisation,
                   _capabilities, loopVars, task, notification_limit,
                   permission, prompts, backendCaps, current, nextNid,
                   capQueries, authBySend, explicitBeforeSend>>

\* notifier.app_name = value
app_name_setter(value) ==
    /\ value # app_name
    /\ app_name' = value
    /\ delegated' = delegated \cup {_impl}
    /\ UNCHANGED <<selVars, orchVars, loopVars, task, notification_limit,
                   permission, prompts, backendCaps, current, nextNid,
                   capQueries, authBySend, explicitBeforeSend>>

\* notifier.app_icon = icon
app_icon_setter(icon) ==
    /\ icon # app_icon
    /\ app_icon' = icon
    /\ UNCHANGED <<selVars, _impl, implCls, _did_request_authorisation,
                   _capabilities, loopVars, task, backendVars, histVars>>

\* ------------------------------------------------------- the environment
\* The user changes the permission in the system settings.
UserChangesPermission ==
    /\ permission # "notDetermined"
    /\ permission' = IF permission = "granted" THEN "denied" ELSE "granted"
    /\ UNCHANGED <<selVars, orchVars, loopVars, task, app_name,
                   notification_limit, prompts, backendCaps, current, nextNid,
                   histVars>>

\* The user dismisses a notification on display: the backend drops it.
UserDismisses(nid) ==
    /\ \E i \in 1..Len(current) : current[i] = nid
    /\ current' = Without(current, nid)
    /\ UNCHANGED <<selVars, orchVars, loopVars, task, app_name,
                   notification_limit, permission, prompts, backendCaps,
                   nextNid, histVars>>

\* The capability set the platform would report changes.
CapabilitiesChange(c) ==
    /\ c # backendCaps
    /\ backendCaps' = c
    /\ UNCHANGED <<selVars, orchVars, loopVars, task, app_name,
                   notification_limit, permission, prompts, current, nextNid,
                   histVars>>

\* --------------------------------------------- the asynchronous interface
Next ==
    \/ \E k \in Tasks, icon \in NotificationIcons : send(k, icon)
    \/ \E k \in Tasks : send_notification_resume(k)
    \/ \E k \in Tasks, accepted \in BOOLEAN : send_notification_return(k, accepted)
    \/ \E k \in Tasks : request_authorisation(k)
    \/ \E k \in Tasks : request_authorisation_return(k)
    \/ \E k \in Tasks : has_authorisation(k)
    \/ \E k \in Tasks : has_authorisation_return(k)
    \/ \E k \in Tasks : get_capabilities(k)
    \/ \E k \in Tasks : get_capabilities_return(k)
    \/ \E k \in Tasks, nid \in {None} \cup {Some(i) : i \in Tasks} :
           clear(k, nid)
    \/ \E k \in Tasks : clear_return(k)
    \/ \E k \in Tasks : clear_all(k)
    \/ \E k \in Tasks : clear_all_return(k)
    \/ current_notifications
    \/ \E value \in AppNames : app_name_setter(value)
    \/ \E icon \in AppIcons : app_icon_setter(icon)
    \/ UserChangesPermission
    \/ \E c \in CapabilitySets : CapabilitiesChange(c)

Spec == Init /\ [][Next]_vars

\* ------------------------------------------------- the synchronous bridge
\* send_sync(...): the coroutine of send is created, and _run_coro_sync looks
\* at self._loop.is_running() to choose how to run it.
send_sync(t, icon) ==
    /\ Free(t)
    /\ task' = [task EXCEPT ![t] =
           [IdleTask EXCEPT !.op = "send", !.pc = "created", !.onLoop = TRUE,
                            !.icon = icon, !.given = icon]]
    /\ thread' = [thread EXCEPT ![t] =
           IF is_running THEN "is_running_true" ELSE "is_running_false"]
    /\ UNCHANGED <<selVars, orchVars, loopOwner, loopBlocked, backendVars,
                   histVars>>

\* asyncio.run_coroutine_threadsafe(coro, self._loop), then future.result():
\* the coroutine is handed to the loop, which runs it when it next turns.
run_coroutine_threadsafe(t) ==
    /\ thread[t] = "is_running_true"
    /\ task' = [task EXCEPT ![t].pc = "scheduled"]
    /\ thread' = [thread EXCEPT ![t] = "future_result"]
    /\ UNCHANGED <<selVars, orchVars, loopOwner, loopBlocked, backendVars,
                   histVars>>

\* self._loop.run_until_complete(coro): RuntimeError when the loop is running
\* by now, else this thread runs the loop until its coroutine is done.
run_until_complete(t) ==
    /\ thread[t] = "is_running_false"
    /\ IF is_running
       THEN /\ thread' = [thread EXCEPT ![t] = "raised"]
            /\ UNCHANGED <<task, loopOwner>>
       ELSE /\ thread' = [thread EXCEPT ![t] = "run_until_complete"]
            /\ task' = [task EXCEPT ![t].pc = "scheduled"]
            /\ loopOwner' = Some(t)
    /\ UNCHANGED <<selVars, orchVars, loopBlocked, backendVars, histVars>>

\* The loop starts a coroutine handed to it: send runs to its first await.
coro_start(k) ==
    /\ task[k].pc = "scheduled"
    /\ Schedulable(k)
    /\ send_notification(k, task[k].icon, TRUE)
    /\ UNCHANGED <<selVars, loopVars>>

\* run_until_complete returns: its coroutine is done, the loop stops and the
\* result goes to the caller.
run_until_complete_return(t) ==
    /\ thread[t] = "run_until_complete"
    /\ task[t].pc = "done"
    /\ ~loopBlocked
    /\ loopOwner' = None
    /\ thread' = [thread EXCEPT ![t] = "returned"]
    /\ UNCHANGED <<selVars, orchVars, loopBlocked, task, backendVars,
                   histVars>>

\* future.result() returns: the running loop has passed the coroutine's
\* result on to the future the caller waits for.
future_result(t) ==
    /\ thread[t] = "future_result"
    /\ task[t].pc = "done"
    /\ is_running /\ ~loopBlocked
    /\ thread' = [thread EXCEPT ![t] = "returned"]
    /\ UNCHANGED <<selVars, orchVars, loopOwner, loopBlocked, task,
                   backendVars, histVars>>

\* send_sync called by code that the private loop is running (a callback of
\* a notification, say): is_running() is true, the coroutine is handed to the
\* loop, and future.result() blocks the very thread that runs the loop.
send_sync_in_loop(t, icon) ==
    /\ Free(t)
    /\ is_running /\ ~loopBlocked
    /\ task' = [task EXCEPT ![t] =
           [IdleTask EXCEPT !.op = "send", !.pc = "scheduled",
                            !.onLoop = TRUE, !.icon = icon, !.given = icon]]
    /\ thread' = [thread EXCEPT ![t] = "future_result_in_loop"]
    /\ loopBlocked' = TRUE
    /\ UNCHANGED <<selVars, orchVars, loopOwner, backendVars, histVars>>

NextBridge ==
    \/ \E t \in Tasks, icon \in NotificationIcons : send_sync(t, icon)
    \/ \E t \in Tasks : run_coroutine_threadsafe(t)
    \/ \E t \in Tasks : run_until_complete(t)
    \/ \E k \in Tasks : coro_start(k)
    \/ \E k \in Tasks : send_notification_resume(k)
    \/ \E k \in Tasks, accepted \in BOOLEAN : send_notification_return(k, accepted)
    \/ \E t \in Tasks : run_until_complete_return(t)
    \/ \E t \in Tasks : future_result(t)
    \/ \E t \in Tasks, icon \in NotificationIcons : send_sync_in_loop(t, icon)
    \/ \E icon \in AppIcons : app_icon_setter(icon)
    \/ UserChangesPermission

\* Threads calling send_sync on one notifier.
SpecBridge == Init /\ [][NextBridge]_vars

\* One thread, no event loop of its own, calling send_sync time after time:
\* it never finds the private loop running.
send_sync_alone(t, icon) ==
    /\ \A j \in Tasks : j < t => thread[j] = "returned"
    /\ send_sync(t, icon)

NextFresh ==
    \/ \E t \in Tasks, icon \in NotificationIcons : send_sync_alone(t, icon)
    \/ \E t \in Tasks : run_until_complete(t)
    \/ \E k \in Tasks : coro_start(k)
    \/ \E k \in Tasks : send_notification_resume(k)
    \/ \E k \in Tasks, accepted \in BOOLEAN : send_notification_return(k, accepted)
    \/ \E t \in Tasks : run_until_complete_return(t)
    \/ \E icon \in AppIcons : app_icon_setter(icon)
    \/ UserChangesPermission

\* The calling thread keeps running, the loop it runs keeps turning, and the
\* backend answers every call made to it.
FreshFairness ==
    \A t \in Tasks :
        /\ WF_vars(run_until_complete(t))
        /\ WF_vars(coro_start(t))
        /\ WF_vars(send_notification_resume(t))
        /\ WF_vars(\E accepted \in BOOLEAN : send_notification_return(t, accepted))
        /\ WF_vars(run_until_complete_return(t))

SpecFresh == Init /\ [][NextFresh]_vars /\ FreshFairness

\* ---------------------------------------------- the selector on any host
InitSelect ==
    /\ env \in Environments
    /\ selected = "none"
    /\ implCls = "none"
    /\ NotifierFields(DEFAULT_ICON, None)
    /\ permission = "notDetermined"
    /\ backendCaps = {}

\* impl_cls = get_implementation_class(), line 146
Select ==
    /\ selected' = get_implementation_class(env)
    /\ implCls' = selected'
    /\ UNCHANGED <<env, limit_arg, app_icon, _impl, _did_request_authorisation,
                   _capabilities, loopVars, task, backendVars, histVars>>

NextSelect == Select

SpecSelect == InitSelect /\ [][NextSelect]_vars

\* ------------------------------------------------ the notification store
\* The calls that schedule, list and remove notifications, MaxSends of them,
\* on a notifier built with any of the limits.
NextStore ==
    \/ \E k \in Sends, icon \in {NoIcon} : send(k, icon)
    \/ \E k \in Sends : send_notification_resume(k)
    \/ \E k \in Sends, accepted \in BOOLEAN : send_notification_return(k, accepted)
    \/ \E k \in Sends, nid \in {None} \cup {Some(i) : i \in Sends} :
           clear(k, nid)
    \/ \E k \in Sends : clear_return(k)
    \/ \E k \in Sends : clear_all(k)
    \/ \E k \in Sends : clear_all_return(k)
    \/ current_notifications
    \/ \E nid \in Sends : UserDismisses(nid)

SpecStore == Init /\ [][NextStore]_vars

\* ================================================================= claims

\* C1: over the lifetime of one notifier, whatever the number of
\* get_capabilities calls and whatever set the backend reports, the backend's
\* get_capabilities is invoked exactly once.
C1_BackendQueriedOnce ==
    (\E k \in Tasks : task[k].op = "get_capabilities") => capQueries = 1

\* C2: any two get_capabilities calls that have returned returned the same
\* set, and the cached set, once populated, is never replaced or cleared.
C2_CacheStable ==
    [][/\ \A j, k \in Tasks :
              (/\ task'[j].op = "get_capabilities" /\ task'[j].pc = "done"
               /\ task'[k].op = "get_capabilities" /\ task'[k].pc = "done")
              => task'[j].res = task'[k].res
       /\ _capabilities # None => _capabilities' = _capabilities]_vars

\* C3: send asks the backend for authorisation at most once over all send
\* calls, however they interleave, and never when request_authorisation was
\* called explicitly before the first send.
C3_LazyAuthorisationOnce ==
    /\ authBySend <= 1
    /\ explicitBeforeSend => authBySend = 0

\* Two sends interleave: one still waits for the authorisation it asked for
\* while the other, having found the flag set, is already at the backend.
C3_Witness ==
    \E j, k \in Tasks :
        /\ task[j].op = "send" /\ task[j].pc = "await_auth"
        /\ task[k].op = "send" /\ task[k].pc = "await_send"
        /\ authBySend = 1

\* C4: a send that has ended has returned its Notification, never raised,
\* and the Notification carries an identifier exactly when the backend
\* accepted it.
C4_SendAlwaysReturns ==
    \A k \in Tasks :
        (task[k].op = "send" /\ task[k].pc = "done") =>
            /\ task[k].status = "returned"
            /\ (task[k].identifier # None) <=> task[k].accepted

\* A send has ended without display: permission is denied, nothing accepted.
C4_Witness ==
    \E k \in Tasks :
        /\ task[k].op = "send" /\ task[k].pc = "done"
        /\ ~task[k].accepted /\ task[k].identifier = None
        /\ permission = "denied"

\* C5: no call through the bridge fails because the private loop is already
\* running, and none is left waiting on a loop that has stopped while no
\* thread is about to run it.
C5_BridgeCallsComplete ==
    \A t \in Tasks :
        /\ thread[t] # "raised"
        /\ ~(/\ thread[t] = "future_result"
             /\ ~is_running
             /\ \A j \in Tasks : thread[j] # "is_running_false")

\* C6: a bridge call made from inside the private loop is reported as an
\* error; it never leaves the loop's thread waiting for a result that only
\* the loop could produce.
C6_InLoopCallReported ==
    \A t \in Tasks : thread[t] # "future_result_in_loop" /\ ~loopBlocked

\* C7: send_sync from a thread that has no event loop of its own terminates:
\* every such call returns the Notification of a send that did run, the
\* authorisation requested and the backend's send performed.
C7_FreshThreadReturns ==
    \A t \in Tasks :
        (thread[t] # "idle") ~>
            (/\ thread[t] = "returned"
             /\ task[t].pc = "done" /\ task[t].status = "returned"
             /\ _did_request_authorisation)

\* A bridged send has returned a Notification the backend accepted.
C7_Witness ==
    \E t \in Tasks :
        /\ thread[t] = "returned" /\ task[t].onLoop
        /\ task[t].pc = "done" /\ task[t].identifier # None

\* C8: however often request_authorisation is called, the backend prompts
\* the user at most once, and each call returns the permission as it is when
\* that call returns.
C8_RequestTwice ==
    [][/\ prompts' <= 1
       /\ \A k \in Tasks :
              (/\ task[k].op = "request_authorisation"
               /\ task[k].pc = "await_auth" /\ task'[k].pc = "done")
              => task'[k].res = Some(permission' = "granted")]_vars

\* Two request_authorisation calls have returned, one prompt was shown, and
\* the calls returned different answers: granted first, denied since.
C8_Witness ==
    \E j, k \in Tasks :
        /\ task[j].op = "request_authorisation" /\ task[j].pc = "done"
        /\ task[k].op = "request_authorisation" /\ task[k].pc = "done"
        /\ task[j].res = Some(TRUE) /\ task[k].res = Some(FALSE)
        /\ prompts = 1

\* The decision table with the signing requirement: Cocoa only inside a
\* signed bundle.
DecisionTableSigned(e) ==
    IF /\ e.system = "Darwin" /\ VersionGE(e.version, MacThreshold)
       /\ e.is_bundle /\ e.is_signed_bundle
    THEN "CocoaNotificationCenter"
    ELSE IF e.system = "Linux" THEN "DBusDesktopNotifier"
    ELSE IF e.system = "Windows" /\ VersionGE(e.version, WinThreshold)
    THEN "WinRTDesktopNotifier"
    ELSE "DummyNotificationCenter"

\* The decision table without it: Cocoa inside any bundle.
DecisionTableBundle(e) ==
    IF /\ e.system = "Darwin" /\ VersionGE(e.version, MacThreshold)
       /\ e.is_bundle
    THEN "CocoaNotificationCenter"
    ELSE IF e.system = "Linux" THEN "DBusDesktopNotifier"
    ELSE IF e.system = "Windows" /\ VersionGE(e.version, WinThreshold)
    THEN "WinRTDesktopNotifier"
    ELSE "DummyNotificationCenter"

BackendClasses ==
    {"CocoaNotificationCenter", "DBusDesktopNotifier", "WinRTDesktopNotifier",
     "DummyNotificationCenter"}

C10_BackendNeverReplaced ==
    /\ _impl = 0
    /\ delegated \subseteq {_impl}

\* app_name has been set, and a send has gone through the backend since
\* the notifier was made.
C10_Witness ==
    /\ app_name # "Python"
    /\ \E k \in Tasks : task[k].op = "send" /\ task[k].pc = "done"
    /\ \E k \in Tasks : task[k].op = "get_capabilities" /\ task[k].pc = "done"
    /\ delegated = {_impl}

\* ------------------------------------------------ claims about the store
\* The backend's list, as current_notifications hands it out, holds `nid`.
Listed(cur, nid) == \E i \in 1..Len(cur) : cur[i] = nid
Identifiers(cur) == {cur[i] : i \in 1..Len(cur)}
Oldest(cur) == CHOOSE n \in Identifiers(cur) : \A m \in Identifiers(cur) : n <= m

\* The step in which the call in slot k of kind `op` returns to its caller.
Returns(k, op, pc) ==
    task[k].op = op /\ task[k].pc = pc /\ task'[k].pc = "done"

\* C11: when send(n) returns, n carries an identifier exactly if the backend
\* accepted it, and a notification that carries one is in the list that
\* current_notifications yields at that moment.
C11_SentIsListedOrUnset ==
    [][\A k \in Sends : Returns(k, "send", "await_send") =>
          /\ (task'[k].identifier # None) <=> task'[k].accepted
          /\ task'[k].identifier # None =>
                 Listed(current', task'[k].identifier[1])]_vars

\* One send came back with an identifier that is listed, another without.
C11_Witness ==
    /\ \E k \in Sends : /\ task[k].op = "send" /\ task[k].pc = "done"
                        /\ task[k].identifier # None
                        /\ Listed(current, task[k].identifier[1])
    /\ \E j \in Sends : /\ task[j].op = "send" /\ task[j].pc = "done"
                        /\ task[j].identifier = None /\ ~task[j].accepted

\* C12: when clear(n) completes it has raised nothing, n is not in the list,
\* and every other notification is still there in its place; so clearing a
\* notification that is not listed, or that never was sent, changes nothing.
C12_ClearRemovesOnlyThat ==
    [][\A k \in Sends : Returns(k, "clear", "await_clear") =>
          /\ task'[k].status = "returned"
          /\ task[k].arg # None => ~Listed(current', task[k].arg[1])
          /\ current' = SelectSeq(current, LAMBDA x : Some(x) # task[k].arg)
          /\ (task[k].arg = None \/ ~Listed(current, task[k].arg[1]))
                 => current' = current]_vars

\* A notification returned by send was cleared while another one stays.
C12_Witness ==
    \E k, j \in Sends :
        /\ task[k].op = "clear" /\ task[k].pc = "done"
        /\ task[j].op = "send" /\ task[j].identifier = task[k].arg
        /\ task[k].arg # None
        /\ ~Listed(current, task[k].arg[1])
        /\ current # <<>>

\* C13: when clear_all() completes, the list is empty, however many
\* notifications were on it.
C13_ClearAllEmpties ==
    [][\A k \in Sends : Returns(k, "clear_all", "await_clear_all") =>
          /\ task'[k].status = "returned"
          /\ current' = <<>>]_vars

\* clear_all() completed after two notifications had been scheduled.
C13_Witness ==
    \E k \in Sends :
        /\ task[k].op = "clear_all" /\ task[k].pc = "done"
        /\ k > 2
        /\ \A j \in 1..(k - 1) : task[j].op = "send" /\ task[j].accepted
        /\ current = <<>>

Answered(k) ==
    \/ task[k].op = "request_authorisation" /\ task[k].pc = "done"
    \/ /\ task[k].op = "send" /\ task[k].asked
       /\ task[k].pc \in {"await_send", "done"}

\* C15: a send has invoked the backend's send only when some authorisation
\* request to the backend has returned its answer, so that nothing is
\* dispatched while the first request is still pending.
C15_DispatchAfterAnswer ==
    \A k \in Tasks :
        (task[k].op = "send" /\ task[k].dispatched > 0) =>
            \E j \in Tasks : Answered(j)

\* The step in which the call in slot k begins, as a call of kind `op`.
Begins(k, op) == task[k].op = "none" /\ task'[k].op = op

\* C16: a send given no icon goes on with the app_icon of the moment of the
\* call, a send given an icon goes on with that icon, and the icon the
\* notification goes on with is the one it keeps up to the backend and back.
C16_DefaultIcon ==
    [][\A k \in Tasks :
          /\ Begins(k, "send") =>
                 /\ task'[k].given = NoIcon => task'[k].icon = app_icon
                 /\ task'[k].given # NoIcon => task'[k].icon = task'[k].given
          /\ task[k].op = "send" =>
                 /\ task'[k].icon = task[k].icon
                 /\ task'[k].given = task[k].given]_vars

\* Two sends without an icon, before and after a change of app_icon, were
\* both handed to the backend, each with the app_icon of its own call.
C16_Witness ==
    \E j, k \in Tasks :
        /\ task[j].op = "send" /\ task[k].op = "send"
        /\ task[j].given = NoIcon /\ task[k].given = NoIcon
        /\ task[j].dispatched = 1 /\ task[k].dispatched = 1
        /\ task[j].icon # task[k].icon
        /\ task[k].icon = app_icon

\* The send in slot k has returned without the backend having accepted.
Failed(k) ==
    task[k].op = "send" /\ task[k].pc = "done" /\ ~task[k].accepted

\* C17 as claimed: the Notification a failed send hands back has no
\* identifier, and its title and its icon are the ones the caller gave.
C17_FailedSendUnchanged ==
    \A k \in Tasks : Failed(k) =>
        /\ task[k].identifier = None
        /\ task[k].title = Title
        /\ task[k].icon = task[k].given

\* C17: the Notification a failed send hands back has no identifier and the
\* title the caller gave; its icon is the one the caller gave, or, the
\* caller having given none, an app_icon of the notifier.
C17_FailedSendUnchangedButIcon ==
    \A k \in Tasks : Failed(k) =>
        /\ task[k].identifier = None
        /\ task[k].title = Title
        /\ task[k].given # NoIcon => task[k].icon = task[k].given
        /\ task[k].given = NoIcon => task[k].icon \in AppIcons

\* Two failed sends: one given an icon, one given none.
C17_Witness ==
    \E j, k \in Tasks :
        /\ Failed(j) /\ task[j].given # NoIcon /\ task[j].icon = task[j].given
        /\ Failed(k) /\ task[k].given = NoIcon /\ task[k].icon # task[k].given

\* C18: a send that is past its authorisation step has invoked the backend's
\* send once, whatever the answer and whoever asked; before that, not at all.
C18_DispatchedOnce ==
    \A k \in Tasks : task[k].op = "send" =>
        /\ task[k].pc \in {"await_send", "done"} => task[k].dispatched = 1
        /\ task[k].pc = "await_auth" => task[k].dispatched = 0

\* A send asked for authorisation, was denied, and has been to the backend;
\* another, which did not ask, has been there too.
C18_Witness ==
    \E j, k \in Tasks :
        /\ task[j].op = "send" /\ task[j].asked /\ task[j].pc = "done"
        /\ task[j].dispatched = 1
        /\ permission = "denied" /\ prompts = 1
        /\ task[k].op = "send" /\ ~task[k].asked /\ task[k].pc = "done"
        /\ task[k].dispatched = 1

\* The call in slot k went through request_authorisation.
Requester(k) ==
    \/ task[k].op = "request_authorisation"
    \/ task[k].op = "send" /\ task[k].asked

\* C19: _did_request_authorisation is false on a new notifier and true
\* exactly when a call went through request_authorisation; it never goes back
\* to false, it goes to true only in the step of a request_authorisation or
\* of a send that asks, and a send that finds it false does ask.
C19_FlagFollowsRequests ==
    /\ [](_did_request_authorisation <=> \E k \in Tasks : Requester(k))
    /\ [][/\ _did_request_authorisation => _did_request_authorisation'
          /\ (~_did_request_authorisation /\ _did_request_authorisation') =>
                 \E k \in Tasks : \/ Begins(k, "request_authorisation")
                                  \/ Begins(k, "send") /\ task'[k].asked
          /\ \A k \in Tasks :
                 (Begins(k, "send") /\ ~_did_request_authorisation) =>
                     task'[k].asked /\ task'[k].pc = "await_auth"]_vars

\* has_authorisation() has returned, and the send called after it asks.
C19_Witness ==
    \E j, k \in Tasks :
        /\ j < k
        /\ task[j].op = "has_authorisation" /\ task[j].pc = "done"
        /\ task[k].op = "send" /\ task[k].asked
        /\ _did_request_authorisation
====
